---- MODULE Spec2Model ----
(***************************************************************************)
(* PayKuClient: the rate-limited creation handler, the cancellation        *)
(* handler and the signing gateway client.                                 *)
(*                                                                         *)
(* Strings are sequences of character codes (UTF-16 code units), so that   *)
(* Number.toString, parseInt, Array.sort and the key=value&... join are    *)
(* computed as the code computes them.                                     *)
(***************************************************************************)
EXTENDS Integers, Sequences, FiniteSets

VARIABLES clock, store, env, pc, req, now, lastTs, resp, calls,
          paykuClient, outbound

vars == <<clock, store, env, pc, req, now, lastTs, resp, calls,
          paykuClient, outbound>>

(* ------------------------------ bounds --------------------------------- *)

\* concurrent handler invocations
NProc == 2
\* handler invocations of the one-after-another specification
NSeq == 3
\* handler invocations of the specification over all configurations
NEnv == 1
\* last clock value (ms) a Tick may reach
MaxClock == 61000
\* total number of characters in the values of a payload handed to the client
MaxPayloadChars == 3
\* last clock value of the client specification
MaxSignClock == 11

(* ------------------------------ strings -------------------------------- *)

\* JS null / undefined
Null == <<-1>>

\* '&' and '=' of the join
Amp == 38
Eq == 61

\* "timestamp"
TimestampKey == <<116, 105, 109, 101, 115, 116, 97, 109, 112>>
\* "transaction_id"
TransactionIdKey == <<116, 114, 97, 110, 115, 97, 99, 116, 105, 111, 110, 95, 105, 100>>
\* "a", "b": field names of the payloads handed to the client
KeyA == <<97>>
KeyB == <<98>>
\* a letter for the field values tried
LetterB == Head(KeyB)

IsDigit(c) == c >= 48 /\ c <= 57

\* Number.prototype.toString for a non-negative integer
RECURSIVE ToString(_)
ToString(n) ==
  IF n < 10 THEN <<48 + n>> ELSE ToString(n \div 10) \o <<48 + (n % 10)>>

\* value of the leading digits of s, continuing from acc
RECURSIVE ParseDigits(_, _)
ParseDigits(s, acc) ==
  IF s = <<>> \/ ~IsDigit(Head(s)) THEN acc
  ELSE ParseDigits(Tail(s), acc * 10 + (Head(s) - 48))

\* parseInt(s, 10) of an unsigned string; NaN is Null
ParseInt(s) ==
  IF s = Null \/ s = <<>> \/ ~IsDigit(Head(s)) THEN Null ELSE ParseDigits(s, 0)

\* JS truthiness of a string-or-null value
Truthy(v) == v # Null /\ v # <<>>

\* Math.ceil(x / d) for an integer x and d > 0
CeilDiv(x, d) == -((-x) \div d)

(* --------------------------- creation handler -------------------------- *)

RATE_LIMIT_INTERVAL == 60 * 1000

NoRecord == [value |-> Null, ex |-> 0, setAt |-> 0]

\* The store drops a key ex seconds after it was set.
Live(rec, t) == rec.value # Null /\ t < rec.setAt + rec.ex * 1000

\* redis.get(key)
RedisGet(rec, t) == IF Live(rec, t) THEN rec.value ELSE Null

\* redis.set(key, now.toString(), { ex: ceil(INTERVAL / 1000) })
RedisSetRecord(n, t) ==
  [value |-> ToString(n), ex |-> CeilDiv(RATE_LIMIT_INTERVAL, 1000), setAt |-> t]

Identities == {"ip1", "ip2"}
NoHeader == "none"
\* req.socket.remoteAddress, and the x-forwarded-for values tried
RemoteAddress == "ip1"
ForwardedFor == {NoHeader, "ip2"}

\* req.headers['x-forwarded-for'] || req.socket.remoteAddress
IpOf(r) == IF r.xff # NoHeader THEN r.xff ELSE r.remote

NoHeaderValue == -1

CorsHeaders ==
  { <<"Access-Control-Allow-Origin", "*">>,
    <<"Access-Control-Allow-Methods", "GET,POST,OPTIONS">>,
    <<"Access-Control-Allow-Headers", "Content-Type, Authorization">> }

NoResp == [status |-> 0, cors |-> {}, retryAfter |-> NoHeaderValue,
           body |-> [kind |-> "none", msg |-> "", n |-> 0]]

\* setCorsHeaders(res) followed by res.status(s).json(...) or .end(); n is the
\* number a message embeds (the waiting time, the gateway's status code)
Respond(s, kind, msg, n) ==
  [status |-> s, cors |-> CorsHeaders, retryAfter |-> NoHeaderValue,
   body |-> [kind |-> kind, msg |-> msg, n |-> n]]

NoReq == [handler |-> "none", method |-> "none", xff |-> NoHeader,
          remote |-> RemoteAddress, hasExternalId |-> FALSE, hasId |-> FALSE]

Methods == {"OPTIONS", "GET", "POST"}

Procs == DOMAIN pc

(* ----------------------------- gateway client -------------------------- *)

\* a property that is absent from a JS object (undefined)
Undefined == 0

\* x || d for a number-or-undefined x
OrElse(x, d) == IF x # Undefined THEN x ELSE d

\* new Error('apiKey and secretKey are required'): no statusCode property
ConfigError ==
  [statusCode |-> Undefined, response |-> Undefined,
   message |-> "apiKey and secretKey are required"]

\* The rejection of this.http.post / this.http.get propagates unchanged: the
\* gateway status is error.response.status, no statusCode property is set.
\* s = Undefined is a network failure (no response).
HttpError(s) ==
  [statusCode |-> Undefined, response |-> s,
   message |-> IF s = Undefined THEN "Network Error"
               ELSE "Request failed with status code"]

\* no client has been constructed
NoClient == [state |-> "none", apiKey |-> Null, secretKey |-> Null]

\* as NewPaykuClient, only the apiKey being required
NewPaykuClientKeyOnly(cfg) ==
  IF ~Truthy(cfg.apiKey)
    THEN [ok |-> FALSE, error |-> ConfigError, apiKey |-> Null, secretKey |-> Null]
    ELSE [ok |-> TRUE, error |-> ConfigError, apiKey |-> cfg.apiKey,
          secretKey |-> cfg.secretKey]

\* constructor({ apiKey, secretKey }): throws when either is absent or empty
NewPaykuClient(cfg) ==
  IF ~Truthy(cfg.apiKey) \/ ~Truthy(cfg.secretKey)
    THEN [ok |-> FALSE, error |-> ConfigError, apiKey |-> Null, secretKey |-> Null]
    ELSE [ok |-> TRUE, error |-> ConfigError, apiKey |-> cfg.apiKey,
          secretKey |-> cfg.secretKey]

SomeKey == <<107>>
SomeSecret == <<115>>

\* process.env.PAYKU_API_KEY / PAYKU_SECRET_KEY: set, absent or empty
Envs == [apiKey : {SomeKey, Null, <<>>}, secretKey : {SomeSecret, Null, <<>>}]

ConfiguredEnv == [apiKey |-> SomeKey, secretKey |-> SomeSecret]

\* the environments the concurrent handlers are run in
HandlerEnvs == {ConfiguredEnv, [apiKey |-> SomeKey, secretKey |-> <<>>]}

\* what the gateway answers: 200, a non-2xx status, or nothing (network failure)
GatewayReplies == {200, 404, Undefined}

(* ------------------------ creation handler steps ----------------------- *)

\* lines 15-30: CORS headers, OPTIONS, method check, identity, now.
\* The headers and the body are read on the POST path only.
CreateStart(p) ==
  /\ pc[p] = "idle"
  /\ \E m \in Methods :
       IF m = "OPTIONS"
         THEN /\ req' = [req EXCEPT ![p] = [NoReq EXCEPT !.handler = "create", !.method = m]]
              /\ resp' = [resp EXCEPT ![p] = Respond(200, "empty", "", 0)]
              /\ pc' = [pc EXCEPT ![p] = "done"]
              /\ now' = now
       ELSE IF m # "POST"
         THEN /\ req' = [req EXCEPT ![p] = [NoReq EXCEPT !.handler = "create", !.method = m]]
              /\ resp' = [resp EXCEPT ![p] = Respond(405, "error", "Method Not Allowed", 0)]
              /\ pc' = [pc EXCEPT ![p] = "done"]
              /\ now' = now
       ELSE \E x \in ForwardedFor :
              LET r == [NoReq EXCEPT !.handler = "create", !.method = m, !.xff = x]
              IN /\ req' = [req EXCEPT ![p] = r]
                 /\ resp' = [resp EXCEPT ![p] = [NoResp EXCEPT !.cors = CorsHeaders]]
                 /\ pc' = [pc EXCEPT ![p] = "get"]
                 /\ now' = [now EXCEPT ![p] = clock]
  /\ UNCHANGED <<clock, store, env, lastTs, calls, paykuClient, outbound>>

\* as Blocked, the request at exactly one interval still being blocked
BlockedInclusive(last, n) == Truthy(last) /\ n - ParseInt(last) <= RATE_LIMIT_INTERVAL

\* elapsed < RATE_LIMIT_INTERVAL, for a truthy lastTs
Blocked(last, n) == Truthy(last) /\ n - ParseInt(last) < RATE_LIMIT_INTERVAL

\* as WaitTime, in milliseconds
WaitTimeMillis(last, n) == RATE_LIMIT_INTERVAL - (n - ParseInt(last))

\* Math.ceil((RATE_LIMIT_INTERVAL - elapsed) / 1000)
WaitTime(last, n) == CeilDiv(RATE_LIMIT_INTERVAL - (n - ParseInt(last)), 1000)

\* The handler has returned. now[p] is kept as the time of the request.
Return(p) ==
  /\ pc' = [pc EXCEPT ![p] = "done"]
  /\ now' = now
  /\ lastTs' = [lastTs EXCEPT ![p] = Null]

\* lines 35-46: redis.get, then the 429 answer or on to redis.set
CreateGet(p) ==
  /\ pc[p] = "get"
  /\ LET last == RedisGet(store[IpOf(req[p])], clock)
     IN IF Blocked(last, now[p])
          THEN /\ resp' = [resp EXCEPT ![p] =
                     [Respond(429, "error", "Tunggu", WaitTime(last, now[p]))
                        EXCEPT !.retryAfter = WaitTime(last, now[p])]]
               /\ Return(p)
          ELSE /\ lastTs' = [lastTs EXCEPT ![p] = last]
               /\ pc' = [pc EXCEPT ![p] = "set"]
               /\ UNCHANGED <<resp, now>>
  /\ UNCHANGED <<clock, store, env, req, calls, paykuClient, outbound>>

\* as CreateSet, the write being refused when a record is there by now
CreateSetIfAbsent(p) ==
  /\ pc[p] = "set"
  /\ IF Live(store[IpOf(req[p])], clock)
       THEN /\ resp' = [resp EXCEPT ![p] = Respond(429, "error", "Tunggu", 0)]
            /\ Return(p)
            /\ store' = store
       ELSE /\ store' = [store EXCEPT ![IpOf(req[p])] = RedisSetRecord(now[p], clock)]
            /\ pc' = [pc EXCEPT ![p] = "call"]
            /\ UNCHANGED <<now, lastTs, resp>>
  /\ UNCHANGED <<clock, env, req, calls, paykuClient, outbound>>

\* lines 48-50: redis.set(key, now.toString(), { ex: 60 })
CreateSet(p) ==
  /\ pc[p] = "set"
  /\ store' = [store EXCEPT ![IpOf(req[p])] = RedisSetRecord(now[p], clock)]
  /\ pc' = [pc EXCEPT ![p] = "call"]
  /\ UNCHANGED <<clock, env, req, now, lastTs, resp, calls, paykuClient, outbound>>

\* error.statusCode || 500 (creation), 500 (cancellation)
CatchStatus(handler, error) ==
  IF handler = "create" THEN OrElse(error.statusCode, 500) ELSE 500

\* as CreateCall, a constructor failure deleting the record again
CreateCallRollingBack(p) ==
  /\ pc[p] = "call"
  /\ \E e \in BOOLEAN : req' = [req EXCEPT ![p].hasExternalId = e]
  /\ LET client == NewPaykuClient(env)
     IN IF client.ok
          THEN /\ calls' = [calls EXCEPT ![p] = @ + 1]
               /\ pc' = [pc EXCEPT ![p] = "wait"]
               /\ UNCHANGED <<resp, now, lastTs, store>>
          ELSE /\ resp' = [resp EXCEPT ![p] =
                     Respond(CatchStatus("create", client.error), "error",
                             client.error.message, 0)]
               /\ Return(p)
               /\ calls' = calls
               /\ store' = [store EXCEPT ![IpOf(req[p])] = NoRecord]
  /\ UNCHANGED <<clock, env, paykuClient, outbound>>

\* lines 53-62: req.body is read and passed on as received, whether or not
\* it has an external_id; new PaykuClient(...) throws into the catch block,
\* or payku.createTransaction issues the POST
CreateCall(p) ==
  /\ pc[p] = "call"
  /\ \E e \in BOOLEAN : req' = [req EXCEPT ![p].hasExternalId = e]
  /\ LET client == NewPaykuClient(env)
     IN IF client.ok
          THEN /\ calls' = [calls EXCEPT ![p] = @ + 1]
               /\ pc' = [pc EXCEPT ![p] = "wait"]
               /\ UNCHANGED <<resp, now, lastTs>>
          ELSE /\ resp' = [resp EXCEPT ![p] =
                     Respond(CatchStatus("create", client.error), "error",
                             client.error.message, 0)]
               /\ Return(p)
               /\ calls' = calls
  /\ UNCHANGED <<clock, store, env, paykuClient, outbound>>

\* the awaited gateway call settles: the result is returned with 200, a
\* rejection goes to the handler's catch block
GatewayReply(p) ==
  /\ pc[p] = "wait"
  /\ \E g \in GatewayReplies :
       resp' = [resp EXCEPT ![p] =
                  IF g = 200 THEN Respond(200, "result", "", 0)
                  ELSE Respond(CatchStatus(req[p].handler, HttpError(g)), "error",
                               HttpError(g).message, g)]
  /\ Return(p)
  /\ UNCHANGED <<clock, store, env, req, calls, paykuClient, outbound>>

(* ---------------------- cancellation handler steps --------------------- *)

\* cancelTransaction.js lines 10-26; req.query is read on the POST path only
CancelStart(p) ==
  /\ pc[p] = "idle"
  /\ \E m \in Methods :
       IF m # "POST"
         THEN /\ req' = [req EXCEPT ![p] = [NoReq EXCEPT !.handler = "cancel", !.method = m]]
              /\ resp' = [resp EXCEPT ![p] = Respond(405, "error", "Method Not Allowed", 0)]
              /\ pc' = [pc EXCEPT ![p] = "done"]
              /\ calls' = calls
       ELSE \E i \in BOOLEAN :
              LET client == NewPaykuClient(env)
              IN /\ req' = [req EXCEPT ![p] =
                             [NoReq EXCEPT !.handler = "cancel", !.method = m, !.hasId = i]]
                 /\ IF ~i
                      THEN /\ resp' = [resp EXCEPT ![p] =
                                 Respond(400, "error", "Missing transaction id", 0)]
                           /\ pc' = [pc EXCEPT ![p] = "done"]
                           /\ calls' = calls
                    ELSE IF ~client.ok
                      THEN /\ resp' = [resp EXCEPT ![p] =
                                 Respond(CatchStatus("cancel", client.error), "error",
                                         client.error.message, 0)]
                           /\ pc' = [pc EXCEPT ![p] = "done"]
                           /\ calls' = calls
                    ELSE /\ resp' = [resp EXCEPT ![p] = [NoResp EXCEPT !.cors = CorsHeaders]]
                         /\ pc' = [pc EXCEPT ![p] = "wait"]
                         /\ calls' = [calls EXCEPT ![p] = @ + 1]
  /\ UNCHANGED <<clock, store, env, now, lastTs, paykuClient, outbound>>

(* -------------------------------- clock -------------------------------- *)

Deltas == {30000, 31000}
SeqDeltas == {30000, 30500, 31000}

\* Date.now() does not decrease
Advance(D) ==
  /\ \E d \in D : clock + d <= MaxClock /\ clock' = clock + d
  /\ UNCHANGED <<store, env, pc, req, now, lastTs, resp, calls, paykuClient, outbound>>

Tick == Advance(Deltas)

TickSeq == Advance(SeqDeltas)

(* ------------------------- signing and the calls ----------------------- *)

\* a < b in the order Array.prototype.sort uses for strings (code units)
RECURSIVE LexLess(_, _)
LexLess(a, b) ==
  IF b = <<>> THEN FALSE
  ELSE IF a = <<>> THEN TRUE
  ELSE IF Head(a) # Head(b) THEN Head(a) < Head(b)
  ELSE LexLess(Tail(a), Tail(b))

\* Object.keys(payload).sort()
RECURSIVE SortKeys(_)
SortKeys(K) ==
  IF K = {} THEN <<>>
  ELSE LET least == CHOOSE k \in K : \A j \in K \ {k} : LexLess(k, j)
       IN <<least>> \o SortKeys(K \ {least})

\* as JoinEntries, without '=' and '&'
RECURSIVE JoinEntriesBare(_, _)
JoinEntriesBare(keys, payload) ==
  IF keys = <<>> THEN <<>>
  ELSE Head(keys) \o payload[Head(keys)] \o JoinEntriesBare(Tail(keys), payload)

\* sortedKeys.map(k => `${k}=${payload[k]}`).join('&')
RECURSIVE JoinEntries(_, _)
JoinEntries(keys, payload) ==
  IF keys = <<>> THEN <<>>
  ELSE LET entry == Head(keys) \o <<Eq>> \o payload[Head(keys)]
       IN IF Len(keys) = 1 THEN entry
          ELSE entry \o <<Amp>> \o JoinEntries(Tail(keys), payload)

StringToSign(payload) == JoinEntries(SortKeys(DOMAIN payload), payload)

\* HMAC-SHA256 keyed with secretKey, taken to be injective
Hmac(secretKey, message) == <<secretKey, message>>

\* generateSignature(payload)
generateSignature(secretKey, payload) == Hmac(secretKey, StringToSign(payload))

\* as WithTimestamp, a timestamp field of the payload winning: { timestamp, ...payload }
WithTimestampFirst(payload, timestamp) ==
  [k \in DOMAIN payload \cup {TimestampKey} |->
     IF k \in DOMAIN payload THEN payload[k] ELSE timestamp]

\* { ...payload, timestamp }
WithTimestamp(payload, timestamp) ==
  [k \in DOMAIN payload \cup {TimestampKey} |->
     IF k = TimestampKey THEN timestamp ELSE payload[k]]

\* prepareHeaders(payload), Date.now() being t
prepareHeaders(c, payload, t) ==
  LET timestamp == ToString(t)
      payloadWithTs == WithTimestamp(payload, timestamp)
  IN [XAPIKey |-> c.apiKey, XTimestamp |-> timestamp,
      XSignature |-> generateSignature(c.secretKey, payloadWithTs)]

\* the characters of the field values tried
Chars == {LetterB, Amp, Eq}

\* the field names of the payloads tried, and the object f with field k set to v
PayloadKeys == <<KeyA, KeyB, TimestampKey>>

Put(f, k, v) == [x \in DOMAIN f \cup {k} |-> IF x = k THEN v ELSE f[x]]

EmptyPayload == [k \in {} |-> <<>>]

\* the objects with fields among keys whose values hold at most n characters
\* in all, each value drawn from alphabet
RECURSIVE ObjectsWithin(_, _, _)
ObjectsWithin(keys, n, alphabet) ==
  IF keys = <<>> THEN {EmptyPayload}
  ELSE ObjectsWithin(Tail(keys), n, alphabet) \cup
       UNION { {Put(f, Head(keys), v) : f \in ObjectsWithin(Tail(keys), n - Len(v), alphabet)}
               : v \in UNION {[1..k -> alphabet] : k \in 0..n} }

\* the objects handed to createTransaction, withdraw and transfer
Payloads == ObjectsWithin(PayloadKeys, MaxPayloadChars, Chars)

\* the ids handed to getTransaction, cancelTransaction and getAccount
Ids == {<<LetterB>>, <<Amp>>}

NoOutbound ==
  [op |-> "none", method |-> "none", endpoint |-> <<>>, body |-> EmptyPayload,
   signed |-> EmptyPayload, headers |-> [XAPIKey |-> Null, XTimestamp |-> Null,
                                          XSignature |-> <<Null, Null>>]]

\* this.http.post(endpoint, body, { headers }) / this.http.get(endpoint, { headers })
\* with headers = prepareHeaders(signed)
Send(op, method, endpoint, body, signed) ==
  /\ paykuClient.state = "ok"
  /\ outbound = NoOutbound
  /\ outbound' = [op |-> op, method |-> method, endpoint |-> endpoint,
                  body |-> body, signed |-> signed,
                  headers |-> prepareHeaders(paykuClient, signed, clock)]
  /\ UNCHANGED <<clock, store, env, pc, req, now, lastTs, resp, calls, paykuClient>>

\* new PaykuClient({ apiKey, secretKey })
Construct ==
  /\ paykuClient = NoClient
  /\ LET c == NewPaykuClient(env)
     IN paykuClient' = IF c.ok THEN [state |-> "ok", apiKey |-> c.apiKey,
                                secretKey |-> c.secretKey]
                  ELSE [NoClient EXCEPT !.state = "threw"]
  /\ UNCHANGED <<clock, store, env, pc, req, now, lastTs, resp, calls, outbound>>

createTransaction ==
  \E data \in Payloads : Send("createTransaction", "POST", <<"/create-transaction">>, data, data)

getTransaction ==
  \E id \in Ids : Send("getTransaction", "GET", <<"/transaction/", id>>, EmptyPayload, EmptyPayload)

cancelTransaction ==
  \E id \in Ids :
    LET payload == [k \in {TransactionIdKey} |-> id]
    IN Send("cancelTransaction", "POST", <<"/transaction/", id, "/cancel">>, payload, payload)

withdraw ==
  \E data \in Payloads : Send("withdraw", "POST", <<"/withdraw">>, data, data)

getAccount ==
  \E id \in Ids : Send("getAccount", "GET", <<"/account/", id>>, EmptyPayload, EmptyPayload)

transfer ==
  \E data \in Payloads : Send("transfer", "POST", <<"/transfer">>, data, data)

\* Date.now() moves on until the call is made
SignTick ==
  /\ outbound = NoOutbound
  /\ clock < MaxSignClock
  /\ clock' = clock + 1
  /\ UNCHANGED <<store, env, pc, req, now, lastTs, resp, calls, paykuClient, outbound>>

(* ---------------------------- specifications --------------------------- *)

InitHandlers(n, E) ==
  /\ clock = 0
  /\ store = [i \in Identities |-> NoRecord]
  /\ env \in E
  /\ pc = [p \in 1..n |-> "idle"]
  /\ req = [p \in 1..n |-> NoReq]
  /\ now = [p \in 1..n |-> 0]
  /\ lastTs = [p \in 1..n |-> Null]
  /\ resp = [p \in 1..n |-> NoResp]
  /\ calls = [p \in 1..n |-> 0]
  /\ paykuClient = NoClient
  /\ outbound = NoOutbound

\* concurrent handler invocations
Init == InitHandlers(NProc, HandlerEnvs)

\* Invocations are numbered in the order in which they arrive.
Arrives(p) == \A q \in Procs : q < p => pc[q] # "idle"

Next ==
  \/ \E p \in Procs : Arrives(p) /\ CreateStart(p)
  \/ \E p \in Procs : CreateGet(p)
  \/ \E p \in Procs : CreateSet(p)
  \/ \E p \in Procs : CreateCall(p)
  \/ \E p \in Procs : GatewayReply(p)
  \/ \E p \in Procs : Arrives(p) /\ CancelStart(p)
  \/ Tick

Spec == Init /\ [][Next]_vars

\* handler invocations one after another: a request is taken up when every
\* earlier one has been answered
Alone(p) == \A q \in Procs : q < p => pc[q] = "done"

InitSeq == InitHandlers(NSeq, {ConfiguredEnv})

NextSeq ==
  \/ \E p \in Procs : Alone(p) /\ CreateStart(p)
  \/ \E p \in Procs : CreateGet(p)
  \/ \E p \in Procs : CreateSet(p)
  \/ \E p \in Procs : CreateCall(p)
  \/ \E p \in Procs : GatewayReply(p)
  \/ TickSeq

SpecSeq == InitSeq /\ [][NextSeq]_vars

\* handler invocations under every configuration of the credentials
InitEnv == InitHandlers(NEnv, Envs)

SpecEnv == InitEnv /\ [][Next]_vars

\* the gateway client on its own: one client, one call
InitSign ==
  /\ clock = MaxSignClock - 2
  /\ store = [i \in Identities |-> NoRecord]
  /\ env \in Envs
  /\ pc = [p \in {} |-> "idle"]
  /\ req = [p \in {} |-> NoReq]
  /\ now = [p \in {} |-> 0]
  /\ lastTs = [p \in {} |-> Null]
  /\ resp = [p \in {} |-> NoResp]
  /\ calls = [p \in {} |-> 0]
  /\ paykuClient = NoClient
  /\ outbound = NoOutbound

NextSign ==
  \/ Construct
  \/ createTransaction
  \/ getTransaction
  \/ cancelTransaction
  \/ withdraw
  \/ getAccount
  \/ transfer
  \/ SignTick

SpecSign == InitSign /\ [][NextSign]_vars

(* ------------------------------ properties ------------------------------ *)

IsCreatePost(p) == req[p].handler = "create" /\ req[p].method = "POST"

\* the clock values a stored timestamp can be the decimal string of
TimesTried == {i * 500 : i \in 0..(MaxClock \div 500)}

\* the number a record's value is the decimal string of
TimestampIn(rec) == CHOOSE n \in TimesTried : ToString(n) = rec.value

\* r = ceil(ms / 1000)
IsCeilSeconds(r, ms) == 1000 * (r - 1) < ms /\ ms <= 1000 * r

C1Get(p) ==
  LET rec == store[IpOf(req[p])]
      allowed == ~Live(rec, clock) \/ now[p] - TimestampIn(rec) >= 60000
  IN (pc[p] = "get" /\ pc'[p] # "get") =>
       /\ pc'[p] = "set" <=> allowed
       /\ store' = store
       /\ ~allowed =>
            /\ pc'[p] = "done"
            /\ resp'[p].status = 429
            /\ IsCeilSeconds(resp'[p].retryAfter, 60000 - (now[p] - TimestampIn(rec)))

C1Set(p) ==
  (pc[p] = "set" /\ pc'[p] # "set") =>
    LET rec == store'[IpOf(req[p])]
    IN /\ rec.value # Null
       /\ TimestampIn(rec) = now[p]
       /\ \A t \in TimesTried : Live(rec, t) <=> t < clock + 60000
       /\ \A i \in Identities \ {IpOf(req[p])} : store'[i] = store[i]

\* C1: with requests handled one after another, a request at `now` is allowed
\* iff the store holds no record for its identity or now - lastTimestamp >=
\* 60000; a denied request is answered 429 with Retry-After =
\* ceil((60000 - elapsed) / 1000) and leaves the store as it is; an allowed
\* request overwrites the record with `now`, expiring 60 seconds later.
C1_RateLimiter == [][\A p \in Procs : C1Get(p) /\ C1Set(p)]_vars

\* first request at t=0 allowed, second at t=30000 denied with 30 seconds,
\* third at t=61000 allowed, all of one identity
C1_Witness ==
  /\ NSeq >= 3
  /\ \A p \in {1, 2, 3} : IsCreatePost(p) /\ IpOf(req[p]) = RemoteAddress
  /\ pc[1] = "done" /\ now[1] = 0 /\ resp[1].status = 200
  /\ pc[2] = "done" /\ now[2] = 30000 /\ resp[2].status = 429
  /\ resp[2].retryAfter = 30
  /\ pc[3] = "call" /\ now[3] = 61000

\* C2: a POST to the creation handler whose body has no external_id is
\* answered 400 and no gateway call is made for it.
C2_MissingExternalIdRejected ==
  \A p \in Procs :
    ( /\ IsCreatePost(p)
      /\ pc[p] = "wait" \/ (pc[p] = "done" /\ resp[p].status # 429)
      /\ ~req[p].hasExternalId )
    => /\ calls[p] = 0
       /\ pc[p] = "done" => resp[p].status = 400

\* C3: when the gateway call of a handler fails, the handler answers with the
\* gateway's status code, with 500 only when there is none, and the call is
\* made once.
C3_GatewayStatusPropagated ==
  \A p \in Procs :
    (pc[p] = "done" /\ calls[p] >= 1 /\ resp[p].body.kind = "error")
    => /\ calls[p] = 1
       /\ resp[p].status = IF resp[p].body.n # Undefined THEN resp[p].body.n ELSE 500

\* C4: every handler answers an OPTIONS request with 200, the three CORS
\* headers and an empty body, and makes no gateway call.
C4_OptionsAnswered200 ==
  \A p \in Procs :
    (pc[p] = "done" /\ req[p].method = "OPTIONS")
    => /\ resp[p].status = 200
       /\ resp[p].cors = CorsHeaders
       /\ resp[p].body.kind = "empty"
       /\ calls[p] = 0

SignTimes == (MaxSignClock - 2)..MaxSignClock

DataOps == {"createTransaction", "withdraw", "transfer"}

\* no '&' and no '=' in the values, no field named timestamp
Plain(f) ==
  /\ TimestampKey \notin DOMAIN f
  /\ \A k \in DOMAIN f : \A i \in 1..Len(f[k]) : f[k][i] \notin {Amp, Eq}

PlainPayloads == ObjectsWithin(<<KeyA, KeyB>>, MaxPayloadChars, {LetterB})

Aliases(inputs) ==
  \E q \in inputs, t \in SignTimes :
    /\ q # outbound.body \/ t # clock
    /\ generateSignature(paykuClient.secretKey, WithTimestamp(q, ToString(t)))
         = outbound.headers.XSignature

RECURSIVE SplitOnAmp(_, _)
SplitOnAmp(str, entry) ==
  IF str = <<>> THEN {entry}
  ELSE IF Head(str) = Amp THEN {entry} \cup SplitOnAmp(Tail(str), <<>>)
  ELSE SplitOnAmp(Tail(str), entry \o <<Head(str)>>)

\* the decimal digits of n, most significant first
Digits(n) ==
  LET width == CHOOSE w \in 1..6 : n < 10^w /\ (w > 1 => n >= 10^(w - 1))
  IN [i \in 1..width |-> 48 + ((n \div 10^(width - i)) % 10)]

\* C9: every call of the client carries X-API-Key, X-Timestamp and
\* X-Signature; X-Timestamp is the time of the call, and the signed string
\* holds the entry timestamp=<X-Timestamp>, whatever the payload.
C9_SignedTimestampIsHeader ==
  outbound.op # "none" =>
    /\ outbound.headers.XAPIKey = env.apiKey
    /\ outbound.headers.XTimestamp = Digits(clock)
    /\ outbound.headers.XSignature[1] = env.secretKey
    /\ (TimestampKey \o <<Eq>> \o Digits(clock))
         \in SplitOnAmp(outbound.headers.XSignature[2], <<>>)

C9_Witness ==
  /\ outbound.op = "transfer"
  /\ TimestampKey \in DOMAIN outbound.body
  /\ outbound.body[TimestampKey] = <<LetterB>>
  /\ clock = MaxSignClock - 1

\* C6: a creation handler that read "no record" is not denied afterwards,
\* whatever another handler of the same identity has written since: it
\* writes its timestamp and, the credentials being set, issues its gateway
\* call. Two handlers that both read before either wrote are both allowed.
C6_ReadThenWriteRace ==
  [][\A p \in Procs :
       /\ (pc[p] = "set" /\ lastTs[p] = Null)
            => (pc'[p] \in {"set", "call"} /\ resp'[p].status # 429)
       /\ (pc[p] = "call" /\ pc'[p] # "call" /\ env = ConfiguredEnv)
            => (pc'[p] = "wait" /\ calls'[p] = 1)]_vars

\* both handlers of one identity are waiting for the gateway, no time having
\* passed since the first of them arrived
C6_Witness ==
  /\ clock = 0
  /\ \A p \in {1, 2} :
       /\ IsCreatePost(p) /\ IpOf(req[p]) = RemoteAddress
       /\ pc[p] = "wait" /\ calls[p] = 1 /\ lastTs[p] = Null

OnlyRequest(p) == \A q \in Procs \ {p} : pc[q] = "idle"

\* C7 as stated: a creation request that ends in an error response of the
\* gateway stage leaves the rate-limit record of its identity as it was
\* before the request (here: the only request of the run, so no record).
C7_ErrorLeavesRecordAsBefore ==
  \A p \in Procs :
    (IsCreatePost(p) /\ pc[p] = "done" /\ resp[p].status = 500 /\ OnlyRequest(p))
    => store[IpOf(req[p])] = NoRecord

\* C7 as amended: the step that ends a creation request in an error response
\* of the gateway stage does not touch the store, and the record of the
\* identity has been written by then (with the request's own now, when it is
\* the only request); at most one gateway call was made.
C7_ErrorKeepsWrittenRecord ==
  [][\A p \in Procs :
       ( /\ IsCreatePost(p)
         /\ pc[p] \in {"call", "wait"}
         /\ pc'[p] = "done"
         /\ resp'[p].status = 500 )
       => /\ store' = store
          /\ store[IpOf(req[p])].value # Null
          /\ calls'[p] <= 1
          /\ OnlyRequest(p) => TimestampIn(store[IpOf(req[p])]) = now[p]]_vars

C7_Witness ==
  \E p \in Procs :
    /\ IsCreatePost(p) /\ pc[p] = "done" /\ resp[p].status = 500
    /\ calls[p] = 1
    /\ now[p] = 30000
    /\ store[IpOf(req[p])].value = Digits(30000)

CredentialsMissing == ~Truthy(env.apiKey) \/ ~Truthy(env.secretKey)

\* the request got as far as new PaykuClient(...)
ReachedConstruction(p) ==
  /\ pc[p] = "done"
  /\ req[p].method = "POST"
  /\ \/ req[p].handler = "cancel" /\ req[p].hasId
     \/ req[p].handler = "create" /\ resp[p].status # 429

\* C8 as stated: with the credentials missing, no handler run attempts a
\* gateway request and every run ends in an error response.
C8_MissingCredentialsAlwaysError ==
  CredentialsMissing =>
    \A p \in Procs :
      /\ calls[p] = 0
      /\ pc[p] = "done" => resp[p].status >= 400

\* C8 as amended: with the credentials missing, no handler run attempts a
\* gateway request; a run that gets as far as constructing the client ends
\* in a 500 response with the constructor's message, and the only run that
\* does not end in an error response is the creation handler's OPTIONS 200.
C8_MissingCredentialsNoCall ==
  CredentialsMissing =>
    \A p \in Procs :
      /\ calls[p] = 0
      /\ pc[p] # "wait"
      /\ ReachedConstruction(p) =>
           /\ resp[p].status = 500
           /\ resp[p].body.msg = "apiKey and secretKey are required"
      /\ (pc[p] = "done" /\ resp[p].status < 400) =>
           (req[p].handler = "create" /\ req[p].method = "OPTIONS")

C8_Witness ==
  /\ env.apiKey = Null
  /\ \E p \in Procs :
       /\ IsCreatePost(p) /\ pc[p] = "done" /\ resp[p].status = 500
       /\ store[IpOf(req[p])].value # Null

\* C10 as stated: every 429 response carries a Retry-After between 1 and 60.
C10_RetryAfterWithinInterval ==
  \A p \in Procs :
    resp[p].status = 429 => (resp[p].retryAfter >= 1 /\ resp[p].retryAfter <= 60)

\* C10 as amended: every 429 response carries a Retry-After of at least 1;
\* it is at most 60 exactly when the timestamp read from the store is not
\* later than the handler's own now.
C10_RetryAfterAtLeastOne ==
  [][\A p \in Procs :
       (pc[p] = "get" /\ resp'[p].status = 429) =>
         LET last == TimestampIn(store[IpOf(req[p])])
         IN /\ resp'[p].retryAfter >= 1
            /\ resp'[p].retryAfter <= 60 <=> last <= now[p]]_vars

\* a handler that read its now before a later request wrote is told to wait
\* longer than the interval
C10_Witness ==
  \E p \in Procs :
    /\ resp[p].status = 429
    /\ now[p] = 0
    /\ resp[p].retryAfter = 90

====
